---- MODULE Spec2Model ----
(***************************************************************************)
(* Model of the ld-decode-tools worker threads and per-pixel algorithms:    *)
(*   - Stacker::run / PalThread::run: the worker loops that pull frames     *)
(*     from a pool, process them and hand the result back;                  *)
(*   - Stacker::stackField, median, isDropout, diffDod: the pixel fuser;    *)
(*   - PalDecoder::configure: the active-area normalisation.                *)
(* Three programs are modelled over one set of variables; each             *)
(* specification starts one of them and leaves the others idle.            *)
(***************************************************************************)
EXTENDS Integers, Sequences, FiniteSets, TLC

\* ----------------------------------------------------------------- bounds
NumWorkers == 2
NumFrames == 3

MaxSources == 4
FieldWidth == 2
FieldHeight == 2
MaxBurstStart == 1
MaxActiveStart == 2
MaxActiveWidth == 33

Workers == 1..NumWorkers
Frames == 1..NumFrames
\* sample values the sources carry at a pixel (0 is the "no signal" value)
Values == {0, 15, 16}

VARIABLES
    \* worker threads (Stacker::run, PalThread::run)
    kind,           \* which thread class the pool runs: "Stacker" or "PalThread"
    abort,          \* the shared QAtomicInt
    pc,             \* per worker: position in run()
    frameNumber,    \* per worker: the local frameNumber
    nextFrame,      \* pool: next frame number to hand out
    got,            \* per worker: result of its last getInputFrame call
    putRet,         \* per worker: result of its last result-submission call
    acquiredBy,     \* per frame: the worker getInputFrame handed it to (0: nobody)
    outputBy,       \* per frame: the workers that submitted it, in order
    lateClaims,     \* per worker: getInputFrame calls made while abort was set
    \* Stacker::stackField
    spc,                        \* position in stackField
    noDiffDod,                  \* argument
    colourBurstStart,           \* videoParameters.colourBurstStart
    availableSourcesForFrame,   \* argument: the source indices
    x, y,                       \* the loop counters
    prevGoodValue,              \* the local carried along the scan
    dropOuts,                   \* the output field's dropouts
    concatCalls,                \* number of dropOuts.concatenate() calls made
    inputFields,                \* per source: its sample at (x, y)
    fieldMetadata,              \* per source: its dropouts (around (x, y))
    inputValues,                \* the local of the loop body, as the fuser sees it
    outputSample,               \* outputField[(fieldWidth * y) + x]
    px,                         \* what the loop body did at (x, y)
    lastGoodOutput,             \* the last sample written from a non-empty value list
    \* PalDecoder::configure
    ppc,                \* position in configure
    isSourcePal,        \* videoParameters.isSourcePal
    activeVideoStart,   \* config.videoParameters.activeVideoStart
    activeVideoEnd,     \* config.videoParameters.activeVideoEnd
    firstActiveScanLine,
    lastActiveScanLine,
    inStart, inEnd,     \* the values configure was called with
    grown               \* the edges moved so far, in order ("end" / "start")

wvars == <<kind, abort, pc, frameNumber, nextFrame, got, putRet, acquiredBy, outputBy, lateClaims>>

svars == <<spc, noDiffDod, colourBurstStart, availableSourcesForFrame, x, y, prevGoodValue,
           dropOuts, concatCalls, inputFields, fieldMetadata, inputValues, outputSample, px,
           lastGoodOutput>>

pvars == <<ppc, isSourcePal, activeVideoStart, activeVideoEnd, firstActiveScanLine,
           lastActiveScanLine, inStart, inEnd, grown>>

vars == <<wvars, svars, pvars>>

NoPixel == [validLen |-> 0, dodCalled |-> FALSE, dodIn |-> <<>>, dodMedian |-> 0,
            branch |-> "none", marked |-> FALSE, prevBefore |-> 0]

WorkersIdle ==
    /\ kind = "none"
    /\ abort = FALSE
    /\ pc = [w \in Workers |-> "stopped"]
    /\ frameNumber = [w \in Workers |-> 0]
    /\ nextFrame = 1
    /\ got = [w \in Workers |-> "none"]
    /\ putRet = [w \in Workers |-> "none"]
    /\ acquiredBy = [f \in Frames |-> 0]
    /\ outputBy = [f \in Frames |-> <<>>]
    /\ lateClaims = [w \in Workers |-> 0]

StackIdle ==
    /\ spc = "idle"
    /\ noDiffDod = FALSE
    /\ colourBurstStart = 0
    /\ availableSourcesForFrame = <<>>
    /\ x = 0
    /\ y = 0
    /\ prevGoodValue = 0
    /\ dropOuts = <<>>
    /\ concatCalls = 0
    /\ inputFields = <<>>
    /\ fieldMetadata = <<>>
    /\ inputValues = <<>>
    /\ outputSample = 0
    /\ px = NoPixel
    /\ lastGoodOutput = 0

PalIdle ==
    /\ ppc = "idle"
    /\ isSourcePal = FALSE
    /\ activeVideoStart = 0
    /\ activeVideoEnd = 0
    /\ firstActiveScanLine = 0
    /\ lastActiveScanLine = 0
    /\ inStart = 0
    /\ inEnd = 0
    /\ grown = <<>>

\* ------------------------------------------------------------ the pool
\* getInputFrame: hands out the next frame number, or reports exhaustion.
PoolHasFrame == nextFrame <= NumFrames

\* ------------------------------------------------------- worker threads
WorkersInit ==
    /\ kind \in {"Stacker", "PalThread"}
    /\ abort = FALSE
    /\ pc = [w \in Workers |-> "loop"]
    /\ frameNumber = [w \in Workers |-> 0]
    /\ nextFrame = 1
    /\ got = [w \in Workers |-> "none"]
    /\ putRet = [w \in Workers |-> "none"]
    /\ acquiredBy = [f \in Frames |-> 0]
    /\ outputBy = [f \in Frames |-> <<>>]
    /\ lateClaims = [w \in Workers |-> 0]

\* Variant of LoopHead that never looks at the flag.
LoopHeadIgnoresAbort(w) ==
    /\ pc[w] = "loop"
    /\ pc' = [pc EXCEPT ![w] = "get"]
    /\ UNCHANGED <<kind, abort, frameNumber, nextFrame, got, putRet, acquiredBy, outputBy, lateClaims, svars, pvars>>

\* while(!abort)
LoopHead(w) ==
    /\ pc[w] = "loop"
    /\ pc' = [pc EXCEPT ![w] = IF abort THEN "stopped" ELSE "get"]
    /\ UNCHANGED <<kind, abort, frameNumber, nextFrame, got, putRet, acquiredBy, outputBy, lateClaims, svars, pvars>>

\* Variant of GetInputFrame that goes round the loop again on exhaustion
\* (continue in place of break).
GetInputFrameContinues(w) ==
    /\ pc[w] = "get"
    /\ lateClaims' = [lateClaims EXCEPT ![w] = IF abort THEN @ + 1 ELSE @]
    /\ IF PoolHasFrame
         THEN /\ frameNumber' = [frameNumber EXCEPT ![w] = nextFrame]
              /\ acquiredBy' = [acquiredBy EXCEPT ![nextFrame] = w]
              /\ nextFrame' = nextFrame + 1
              /\ got' = [got EXCEPT ![w] = "frame"]
              /\ pc' = [pc EXCEPT ![w] = "put"]
         ELSE /\ got' = [got EXCEPT ![w] = "empty"]
              /\ pc' = [pc EXCEPT ![w] = "loop"]
              /\ UNCHANGED <<frameNumber, acquiredBy, nextFrame>>
    /\ UNCHANGED <<kind, abort, putRet, outputBy, svars, pvars>>

\* if (!pool.getInputFrame(frameNumber, ...)) break;  followed by the
\* thread-local processing of the frame, which touches no shared state.
GetInputFrame(w) ==
    /\ pc[w] = "get"
    /\ lateClaims' = [lateClaims EXCEPT ![w] = IF abort THEN @ + 1 ELSE @]
    /\ IF PoolHasFrame
         THEN /\ frameNumber' = [frameNumber EXCEPT ![w] = nextFrame]
              /\ acquiredBy' = [acquiredBy EXCEPT ![nextFrame] = w]
              /\ nextFrame' = nextFrame + 1
              /\ got' = [got EXCEPT ![w] = "frame"]
              /\ pc' = [pc EXCEPT ![w] = "put"]
         ELSE /\ got' = [got EXCEPT ![w] = "empty"]
              /\ pc' = [pc EXCEPT ![w] = "stopped"]
              /\ UNCHANGED <<frameNumber, acquiredBy, nextFrame>>
    /\ UNCHANGED <<kind, abort, putRet, outputBy, svars, pvars>>

\* The pool's side of a result submission: the frame is recorded under the
\* frame number the caller passes; the call reports success or failure.
Submit(w, ok) ==
    /\ outputBy' = [outputBy EXCEPT ![frameNumber[w]] = Append(@, w)]
    /\ putRet' = [putRet EXCEPT ![w] = IF ok THEN "ok" ELSE "fail"]

StackerLoop(w) == kind = "Stacker" /\ LoopHead(w)

StackerGetInputFrame(w) == kind = "Stacker" /\ GetInputFrame(w)

\* stackingPool.setOutputFrame(frameNumber, ...);  the return value is not
\* looked at and the loop goes round again.
StackerSetOutputFrame(w) ==
    /\ kind = "Stacker"
    /\ pc[w] = "put"
    /\ \E ok \in BOOLEAN : Submit(w, ok)
    /\ pc' = [pc EXCEPT ![w] = "loop"]
    /\ UNCHANGED <<kind, abort, frameNumber, nextFrame, got, acquiredBy, lateClaims, svars, pvars>>

PalLoop(w) == kind = "PalThread" /\ LoopHead(w)

PalGetInputFrame(w) == kind = "PalThread" /\ GetInputFrame(w)

\* Variant of PalPutOutputFrame that drops the frame in hand when the flag
\* is already set.
PalPutOutputFrameDropsOnAbort(w) ==
    /\ kind = "PalThread"
    /\ pc[w] = "put"
    /\ IF abort
         THEN /\ pc' = [pc EXCEPT ![w] = "stopped"]
              /\ UNCHANGED <<outputBy, putRet>>
         ELSE \E ok \in BOOLEAN :
                /\ Submit(w, ok)
                /\ pc' = [pc EXCEPT ![w] = IF ok THEN "loop" ELSE "setabort"]
    /\ UNCHANGED <<kind, abort, frameNumber, nextFrame, got, acquiredBy, lateClaims, svars, pvars>>

\* if (!decoderPool.putOutputFrame(frameNumber, rgbOutputData)) { ... }
PalPutOutputFrame(w) ==
    /\ kind = "PalThread"
    /\ pc[w] = "put"
    /\ \E ok \in BOOLEAN :
         /\ Submit(w, ok)
         /\ pc' = [pc EXCEPT ![w] = IF ok THEN "loop" ELSE "setabort"]
    /\ UNCHANGED <<kind, abort, frameNumber, nextFrame, got, acquiredBy, lateClaims, svars, pvars>>

\* abort = true; break;
PalSetAbort(w) ==
    /\ kind = "PalThread"
    /\ pc[w] = "setabort"
    /\ abort' = TRUE
    /\ pc' = [pc EXCEPT ![w] = "stopped"]
    /\ UNCHANGED <<kind, frameNumber, nextFrame, got, putRet, acquiredBy, outputBy, lateClaims, svars, pvars>>

WorkerStep(w) ==
    \/ StackerLoop(w)
    \/ StackerGetInputFrame(w)
    \/ StackerSetOutputFrame(w)
    \/ PalLoop(w)
    \/ PalGetInputFrame(w)
    \/ PalPutOutputFrame(w)
    \/ PalSetAbort(w)

\* ---------------------------------------------------- pixel algorithms
Max(a, b) == IF a >= b THEN a ELSE b

\* Stacker::isDropout: the intervals are tried first to last.
RECURSIVE IsDropoutFrom(_, _, _, _)
IsDropoutFrom(d, i, fieldX, fieldY) ==
    IF i > Len(d)
      THEN FALSE
      ELSE IF /\ (d[i].fieldLine - 1) = fieldY
              /\ fieldX >= d[i].startx
              /\ fieldX <= d[i].endx
             THEN TRUE
             ELSE IsDropoutFrom(d, i + 1, fieldX, fieldY)

IsDropout(d, fieldX, fieldY) == IsDropoutFrom(d, 1, fieldX, fieldY)

\* stackField, first inner loop: the samples of the sources not marked as a
\* dropout at (fx, fy), in source order.
RECURSIVE CollectValid(_, _, _, _, _, _)
CollectValid(fields, meta, avail, fx, fy, i) ==
    IF i > Len(avail)
      THEN <<>>
      ELSE (IF ~IsDropout(meta[avail[i]], fx, fy) THEN <<fields[avail[i]]>> ELSE <<>>)
           \o CollectValid(fields, meta, avail, fx, fy, i + 1)

\* stackField, second inner loop: every source's sample that is > 0.
RECURSIVE CollectNonZero(_, _, _)
CollectNonZero(fields, avail, i) ==
    IF i > Len(avail)
      THEN <<>>
      ELSE (IF fields[avail[i]] > 0 THEN <<fields[avail[i]]>> ELSE <<>>)
           \o CollectNonZero(fields, avail, i + 1)

\* Variant of UseDiffDod that leaves out the pixels with no valid sample.
UseDiffDodSomeValid(inputLen, availLen, noDD) ==
    (inputLen > 0) /\ (inputLen <= 3) /\ (availLen > 3) /\ (noDD = FALSE)

\* if ((inputValues.size() <= 3) && (availableSourcesForFrame.size() > 3) && (noDiffDod == false))
UseDiffDod(inputLen, availLen, noDD) ==
    (inputLen <= 3) /\ (availLen > 3) /\ (noDD = FALSE)

\* Variant of MarksDropout that also marks the colour-burst start column.
MarksDropoutFromBurstStart(fx, burstStart) == fx >= burstStart

\* if (x > videoParameters.colourBurstStart) dropOuts.append(x, x, y + 1);
MarksDropout(fx, burstStart) == fx > burstStart

\* The permutations of 1..n, for the lengths a value list can have.
PermTable ==
    [n \in 0..MaxSources |->
        {p \in [1..n -> 1..n] : \A i, j \in 1..n : i # j => p[i] # p[j]}]

\* std::nth_element(begin, begin + nth, end): the library promises only that
\* afterwards the element at nth is the one a full sort would put there, none
\* before it is greater and none after it is less.  Every arrangement with
\* that property is a possible result.
NthElement(elements, nth) ==
    LET n == Len(elements)
        arrangements == {[i \in 1..n |-> elements[p[i]]] : p \in PermTable[n]}
    IN  {q \in arrangements :
            /\ \A i \in 1..nth : q[i] <= q[nth + 1]
            /\ \A j \in (nth + 2)..n : q[j] >= q[nth + 1]}

\* Stacker::median: the values it can return.  For an even length the second
\* nth_element call rearranges the whole range again, so the element read at
\* n/2 is whatever that call left there.
MedianOutcomes(elements) ==
    LET noOfElements == Len(elements)
    IN  IF noOfElements % 2 = 0
          THEN UNION {
                 {(q2[((noOfElements - 1) \div 2) + 1] + q2[(noOfElements \div 2) + 1]) \div 2 :
                     q2 \in NthElement(q1, (noOfElements - 1) \div 2)} :
                 q1 \in NthElement(elements, noOfElements \div 2)}
          ELSE {q[(noOfElements \div 2) + 1] : q \in NthElement(elements, noOfElements \div 2)}

\* diffDod: quint16 minValue = medianValue - ((medianValue / 100.0) * 10), and
\* maxValue likewise, clamped to [0, 65535] and truncated by the conversion.
\* (For every median in 0..65535 the double arithmetic gives exactly these.)
MinValue(medianValue) == (9 * medianValue) \div 10

MaxValue(medianValue) ==
    IF 11 * medianValue > 655350 THEN 65535 ELSE (11 * medianValue) \div 10

\* diffDod, the copy loop: the values strictly between minValue and maxValue.
RECURSIVE CopyValid(_, _, _)
CopyValid(values, minValue, maxValue) ==
    IF values = <<>>
      THEN <<>>
      ELSE (IF Head(values) > minValue /\ Head(values) < maxValue
              THEN <<Head(values)>> ELSE <<>>)
           \o CopyValid(Tail(values), minValue, maxValue)

\* Stacker::diffDod: the results it can return, with the median it used
\* (-1 when it returned before computing one).
DiffDod(values, burstStart, xPos) ==
    IF Len(values) < 3
      THEN {[medianValue |-> -1, outputValues |-> <<>>]}
      ELSE IF xPos < burstStart
             THEN {[medianValue |-> -1, outputValues |-> <<>>]}
             ELSE {[medianValue |-> m,
                    outputValues |-> CopyValid(values, MinValue(m), MaxValue(m))] :
                       m \in MedianOutcomes(values)}

\* stackField, "Stack with intelligence": the output sample and the new
\* prevGoodValue for a value list, with the branch taken.
Fuse(values, prev) ==
    IF Len(values) > 2
      THEN {[out |-> m, prev |-> m, branch |-> "median"] : m \in MedianOutcomes(values)}
      ELSE IF Len(values) = 0
             THEN {[out |-> prev, prev |-> prev, branch |-> "previous"]}
             ELSE IF Len(values) = 1
                    THEN {[out |-> values[1], prev |-> values[1], branch |-> "copy"]}
                    ELSE {[out |-> (values[1] + values[2]) \div 2,
                           prev |-> (values[1] + values[2]) \div 2,
                           branch |-> "average"]}

\* DropOuts::concatenate: intervals on the same line that overlap or touch
\* are merged into one.
Before(a, b) ==
    \/ a.fieldLine < b.fieldLine
    \/ (a.fieldLine = b.fieldLine /\ a.startx <= b.startx)

RECURSIVE InsertSorted(_, _)
InsertSorted(s, e) ==
    IF s = <<>>
      THEN <<e>>
      ELSE IF Before(e, Head(s))
             THEN <<e>> \o s
             ELSE <<Head(s)>> \o InsertSorted(Tail(s), e)

RECURSIVE SortDropOuts(_)
SortDropOuts(s) ==
    IF s = <<>> THEN <<>> ELSE InsertSorted(SortDropOuts(Tail(s)), Head(s))

RECURSIVE MergeSorted(_)
MergeSorted(s) ==
    IF Len(s) < 2
      THEN s
      ELSE IF s[1].fieldLine = s[2].fieldLine /\ s[2].startx <= s[1].endx + 1
             THEN MergeSorted(<<[s[1] EXCEPT !.endx = Max(s[1].endx, s[2].endx)]>>
                              \o SubSeq(s, 3, Len(s)))
             ELSE <<s[1]>> \o MergeSorted(Tail(s))

Concatenate(s) == MergeSorted(SortDropOuts(s))

\* The dropout lists a source can carry around (fx, fy): one that leaves the
\* pixel clean (the same column, one line further down) and one that covers
\* it (behind an interval that does not).
CleanAt(fx, fy) == <<[startx |-> fx, endx |-> fx, fieldLine |-> fy + 2]>>

DroppedAt(fx, fy) ==
    <<[startx |-> fx + 1, endx |-> fx + 1, fieldLine |-> fy + 1],
      [startx |-> 0, endx |-> fx, fieldLine |-> fy + 1]>>

\* ------------------------------------------------- Stacker::stackField
StackInit ==
    /\ spc = "scan"
    /\ noDiffDod \in BOOLEAN
    /\ colourBurstStart \in 0..MaxBurstStart
    /\ availableSourcesForFrame \in {[i \in 1..n |-> i] : n \in 0..MaxSources}
    /\ x = 0
    /\ y = 0
    /\ prevGoodValue = 0
    /\ dropOuts = <<>>
    /\ concatCalls = 0
    /\ inputFields = <<>>
    /\ fieldMetadata = <<>>
    /\ inputValues = <<>>
    /\ outputSample = 0
    /\ px = NoPixel
    /\ lastGoodOutput = 0

\* The body of the two for loops, for the pixel (x, y).
StackPixel ==
    /\ spc = "scan"
    /\ \E fields \in [1..Len(availableSourcesForFrame) -> Values],
          meta \in [1..Len(availableSourcesForFrame) -> {CleanAt(x, y), DroppedAt(x, y)}] :
         LET avail == availableSourcesForFrame
             valid == CollectValid(fields, meta, avail, x, y, 1)
             rescue == UseDiffDod(Len(valid), Len(avail), noDiffDod)
             raw == CollectNonZero(fields, avail, 1)
         IN  \E dd \in (IF rescue
                          THEN DiffDod(raw, colourBurstStart, x)
                          ELSE {[medianValue |-> -1, outputValues |-> valid]}) :
               \E f \in Fuse(dd.outputValues, prevGoodValue) :
                 LET mark == f.branch = "previous" /\ MarksDropout(x, colourBurstStart)
                 IN  /\ inputFields' = fields
                     /\ fieldMetadata' = meta
                     /\ inputValues' = dd.outputValues
                     /\ outputSample' = f.out
                     /\ prevGoodValue' = f.prev
                     /\ dropOuts' = IF mark
                                      THEN Append(dropOuts,
                                             [startx |-> x, endx |-> x, fieldLine |-> y + 1])
                                      ELSE dropOuts
                     /\ px' = [validLen |-> Len(valid),
                               dodCalled |-> rescue,
                               dodIn |-> IF rescue THEN raw ELSE <<>>,
                               dodMedian |-> dd.medianValue,
                               branch |-> f.branch,
                               marked |-> mark,
                               prevBefore |-> prevGoodValue]
                     /\ lastGoodOutput' = IF Len(dd.outputValues) > 0 THEN f.out
                                          ELSE lastGoodOutput
    /\ spc' = "pixel"
    /\ UNCHANGED <<noDiffDod, colourBurstStart, availableSourcesForFrame, x, y, concatCalls,
                   wvars, pvars>>

\* x++ / y++ and the loop tests; the locals of the body go out of scope.
StackAdvance ==
    /\ spc = "pixel"
    /\ IF x + 1 < FieldWidth
         THEN x' = x + 1 /\ y' = y /\ spc' = "scan"
         ELSE /\ x' = 0
              /\ y' = y + 1
              /\ spc' = IF y + 1 < FieldHeight THEN "scan" ELSE "finish"
    /\ inputFields' = <<>>
    /\ fieldMetadata' = <<>>
    /\ inputValues' = <<>>
    /\ outputSample' = 0
    /\ px' = NoPixel
    /\ UNCHANGED <<noDiffDod, colourBurstStart, availableSourcesForFrame, prevGoodValue,
                   dropOuts, concatCalls, lastGoodOutput, wvars, pvars>>

\* if (dropOuts.size() != 0) dropOuts.concatenate();
StackFinish ==
    /\ spc = "finish"
    /\ IF Len(dropOuts) # 0
         THEN dropOuts' = Concatenate(dropOuts) /\ concatCalls' = concatCalls + 1
         ELSE UNCHANGED <<dropOuts, concatCalls>>
    /\ spc' = "done"
    /\ UNCHANGED <<noDiffDod, colourBurstStart, availableSourcesForFrame, x, y, prevGoodValue,
                   inputFields, fieldMetadata, inputValues, outputSample, px, lastGoodOutput,
                   wvars, pvars>>

StackNext == StackPixel \/ StackAdvance \/ StackFinish


\* ------------------------------------------------ PalDecoder::configure
FirstActiveScanLine == 44
LastActiveScanLine == 620

PalInit ==
    /\ ppc = "start"
    /\ isSourcePal \in BOOLEAN
    /\ inStart \in 0..MaxActiveStart
    /\ inEnd \in inStart..(inStart + MaxActiveWidth)
    /\ activeVideoStart = 0
    /\ activeVideoEnd = 0
    /\ firstActiveScanLine = 0
    /\ lastActiveScanLine = 0
    /\ grown = <<>>

\* The PAL test, the copy of the video parameters and the scan-line band.
ConfigureEnter ==
    /\ ppc = "start"
    /\ IF ~isSourcePal
         THEN /\ ppc' = "rejected"
              /\ UNCHANGED <<activeVideoStart, activeVideoEnd, firstActiveScanLine,
                             lastActiveScanLine>>
         ELSE /\ activeVideoStart' = inStart
              /\ activeVideoEnd' = inEnd
              /\ firstActiveScanLine' = FirstActiveScanLine
              /\ lastActiveScanLine' =
                    IF ((LastActiveScanLine - FirstActiveScanLine) % 2) # 0
                      THEN LastActiveScanLine - 1
                      ELSE LastActiveScanLine
              /\ ppc' = "loop"
    /\ UNCHANGED <<isSourcePal, inStart, inEnd, grown, wvars, svars>>

\* Variant of ConfigureStep that only ever moves the right edge.
ConfigureStepRightOnly ==
    /\ ppc = "loop"
    /\ LET width == activeVideoEnd - activeVideoStart
       IN  IF (width % 16) = 0
             THEN /\ ppc' = "done"
                  /\ UNCHANGED <<activeVideoStart, activeVideoEnd, grown>>
             ELSE /\ activeVideoEnd' = activeVideoEnd + 1
                  /\ grown' = Append(grown, "end")
                  /\ UNCHANGED <<activeVideoStart, ppc>>
    /\ UNCHANGED <<isSourcePal, inStart, inEnd, firstActiveScanLine, lastActiveScanLine,
                   wvars, svars>>

\* One pass of the while (true) loop.
ConfigureStep ==
    /\ ppc = "loop"
    /\ LET width == activeVideoEnd - activeVideoStart
       IN  IF (width % 16) = 0
             THEN /\ ppc' = "done"
                  /\ UNCHANGED <<activeVideoStart, activeVideoEnd, grown>>
             ELSE IF (width % 2) = 0
                    THEN /\ activeVideoEnd' = activeVideoEnd + 1
                         /\ grown' = Append(grown, "end")
                         /\ UNCHANGED <<activeVideoStart, ppc>>
                    ELSE /\ activeVideoStart' = activeVideoStart - 1
                         /\ grown' = Append(grown, "start")
                         /\ UNCHANGED <<activeVideoEnd, ppc>>
    /\ UNCHANGED <<isSourcePal, inStart, inEnd, firstActiveScanLine, lastActiveScanLine,
                   wvars, svars>>

PalNext == ConfigureEnter \/ ConfigureStep

\* ------------------------------------------------------ specifications
Init == WorkersInit /\ StackIdle /\ PalIdle

Next == \E w \in Workers : WorkerStep(w)

Spec == Init /\ [][Next]_vars

FairSpec == Spec /\ \A w \in Workers : WF_vars(WorkerStep(w))

InitStack == StackInit /\ WorkersIdle /\ PalIdle

StackSpec == InitStack /\ [][StackNext]_vars

InitPal == PalInit /\ WorkersIdle /\ StackIdle

PalSpec == InitPal /\ [][PalNext]_vars

PalFairSpec == PalSpec /\ WF_vars(PalNext)

\* ------------------------------------------------------ worker claims

\* C1: a worker whose result submission failed sets the cancellation flag and
\* stops: it is never back at the loop head or at getInputFrame, and once it
\* has stopped the flag is set.
C1_FailedSubmitStops ==
    \A w \in Workers :
        putRet[w] = "fail" =>
            /\ pc[w] \in {"setabort", "stopped"}
            /\ (pc[w] = "stopped" => abort)

\* C2 (as stated): no getInputFrame call is made by any worker while the
\* cancellation flag is set.
C2_NoClaimAfterAbort == \A w \in Workers : lateClaims[w] = 0

\* C2 (amended): once the flag is set, each worker makes at most one more
\* getInputFrame call (the one whose loop test preceded the store), and a
\* worker that has made it is never about to call getInputFrame again.
C2_AtMostOneLateClaim ==
    \A w \in Workers :
        /\ lateClaims[w] <= 1
        /\ (lateClaims[w] = 1 => pc[w] # "get")

\* A worker made its one late claim, submitted the frame and was then stopped
\* by the loop test.
C2_Witness ==
    \E w \in Workers :
        /\ abort
        /\ lateClaims[w] = 1
        /\ got[w] = "frame"
        /\ putRet[w] = "ok"
        /\ pc[w] = "stopped"

\* C3: every frame is submitted at most once and only by the worker that
\* acquired it; a worker holds at most the frame it is about to submit, and
\* every other frame it acquired has been submitted exactly once.
C3_ExactlyOnce ==
    /\ \A f \in Frames :
          /\ Len(outputBy[f]) <= 1
          /\ \A i \in DOMAIN outputBy[f] : outputBy[f][i] = acquiredBy[f]
    /\ \A w \in Workers : \A f \in Frames :
          acquiredBy[f] = w =>
              IF pc[w] = "put" /\ frameNumber[w] = f
                THEN outputBy[f] = <<>>
                ELSE outputBy[f] = <<w>>

\* A worker acquired a frame after another worker set the flag, and has
\* submitted it.
C3_Witness ==
    \E w \in Workers :
        /\ abort
        /\ lateClaims[w] = 1
        /\ got[w] = "frame"
        /\ pc[w] # "put"
        /\ outputBy[frameNumber[w]] = <<w>>
        /\ \E f \in Frames : f # frameNumber[w] /\ acquiredBy[f] = w

AllStopped == \A w \in Workers : pc[w] = "stopped"

\* C9: under fair scheduling every worker eventually stops; the step in which
\* getInputFrame returns false stops the worker and leaves the flag alone, and
\* the worker makes no further call afterwards.
C9_Terminates ==
    /\ <>AllStopped
    /\ [][\A w \in Workers :
            (got[w] # "empty" /\ got'[w] = "empty") =>
                (pc'[w] = "stopped" /\ abort' = abort)]_vars
    /\ [][\A w \in Workers :
            got[w] = "empty" => (pc'[w] = "stopped" /\ got'[w] = "empty")]_vars

\* All workers stopped, one of them on exhaustion, the flag never set.
C9_Witness ==
    /\ AllStopped
    /\ ~abort
    /\ \A f \in Frames : acquiredBy[f] # 0
    /\ \E w \in Workers : got[w] = "empty"

\* ------------------------------------------------------- pixel claims
AtPixel == spc = "pixel"

\* An interval of d covers the pixel (fx, fy).
Covers(d, fx, fy) ==
    \E i \in DOMAIN d :
        d[i].fieldLine = fy + 1 /\ d[i].startx <= fx /\ fx <= d[i].endx

\* The available sources whose dropouts do not cover the pixel in hand.
ValidSources ==
    {i \in DOMAIN availableSourcesForFrame :
        ~Covers(fieldMetadata[availableSourcesForFrame[i]], x, y)}

RECURSIVE InsertValue(_, _)
InsertValue(s, v) ==
    IF s = <<>>
      THEN <<v>>
      ELSE IF v <= Head(s) THEN <<v>> \o s ELSE <<Head(s)>> \o InsertValue(Tail(s), v)

RECURSIVE SortValues(_)
SortValues(s) == IF s = <<>> THEN <<>> ELSE InsertValue(SortValues(Tail(s)), Head(s))

\* The order-statistic median; for an even length the mean of the two central
\* order statistics, truncated.
TrueMedian(s) ==
    LET n == Len(s)
        sorted == SortValues(s)
    IN  IF n % 2 = 0
          THEN (sorted[n \div 2] + sorted[(n \div 2) + 1]) \div 2
          ELSE sorted[(n + 1) \div 2]

\* C4: the output sample of a pixel is fixed by its value list: the median for
\* more than 2 values, floor((a+b)/2) for 2, the value itself for 1, and for
\* none the last sample this scan wrote from a non-empty list (0 if none).
C4_FusedByCardinality ==
    AtPixel =>
        outputSample =
            IF Len(inputValues) > 2 THEN TrueMedian(inputValues)
            ELSE IF Len(inputValues) = 2 THEN (inputValues[1] + inputValues[2]) \div 2
            ELSE IF Len(inputValues) = 1 THEN inputValues[1]
            ELSE lastGoodOutput

RECURSIVE InsideBand(_, _)
InsideBand(s, m) ==
    IF s = <<>>
      THEN <<>>
      ELSE (IF /\ 10 * Head(s) > Max(0, 9 * m)
               /\ 10 * Head(s) < (IF 11 * m > 655350 THEN 655350 ELSE 11 * m)
              THEN <<Head(s)>> ELSE <<>>)
           \o InsideBand(Tail(s), m)

\* C6: called with at least 3 values at a column >= colourBurstStart, diffDod
\* returns exactly the values strictly inside median +/- 10 %, clamped to
\* [0, 65535], in input order.
C6_StrictTenPercentBand ==
    (AtPixel /\ px.dodCalled /\ Len(px.dodIn) >= 3 /\ x >= colourBurstStart) =>
        inputValues = InsideBand(px.dodIn, px.dodMedian)

\* C7: a pixel appends the interval (x, x, y+1) exactly when its value list is
\* empty and x > colourBurstStart, nothing else touches the dropouts during
\* the scan, and concatenate is called once, after the last pixel, exactly
\* when the dropouts are not empty.
C7_DropoutsAppended ==
    [][/\ (spc = "scan" /\ spc' = "pixel") =>
            /\ dropOuts' =
                 IF Len(inputValues') = 0 /\ x > colourBurstStart
                   THEN Append(dropOuts, [startx |-> x, endx |-> x, fieldLine |-> y + 1])
                   ELSE dropOuts
            /\ concatCalls' = 0
       /\ spc = "pixel" => (dropOuts' = dropOuts /\ concatCalls' = 0)
       /\ spc = "finish" =>
            concatCalls' = (IF dropOuts # <<>> THEN 1 ELSE 0)
       /\ spc = "done" => concatCalls' = concatCalls]_vars

\* A scan ended with dropouts from two lines, merged by one concatenate call.
C7_Witness ==
    /\ spc = "done"
    /\ concatCalls = 1
    /\ \E i, j \in DOMAIN dropOuts : dropOuts[i].fieldLine # dropOuts[j].fieldLine

\* C10: a pixel with at least one valid sample is never filled with the
\* previous good value and never marked as a dropout.
C10_ValidDataKept ==
    (AtPixel /\ ValidSources # {}) =>
        (px.branch # "previous" /\ ~px.marked)

\* ----------------------------------------------------- configure claim
ActiveWidth == activeVideoEnd - activeVideoStart

Abs(n) == IF n < 0 THEN -n ELSE n

\* C8: the loop ends; the width it ends with is the smallest multiple of 16
\* not below the width it started with; each pass moves one edge outwards by
\* one sample, the edges take turns, their total growth differs by at most
\* one, and a width that is already a multiple of 16 is left alone.
C8_WidthNormalised ==
    /\ <>(ppc \in {"done", "rejected"})
    /\ [](ppc = "done" =>
            /\ ActiveWidth % 16 = 0
            /\ ActiveWidth >= inEnd - inStart
            /\ ActiveWidth - 16 < inEnd - inStart
            /\ ((inEnd - inStart) % 16 = 0 =>
                    (activeVideoStart = inStart /\ activeVideoEnd = inEnd)))
    /\ [](ppc \in {"loop", "done"} =>
            /\ Abs((activeVideoEnd - inEnd) - (inStart - activeVideoStart)) <= 1
            /\ \A i \in 1..(Len(grown) - 1) : grown[i] # grown[i + 1])
    /\ [][ppc = "loop" =>
            \/ (activeVideoEnd' = activeVideoEnd /\ activeVideoStart' = activeVideoStart
                /\ ppc' = "done")
            \/ (activeVideoEnd' = activeVideoEnd + 1 /\ activeVideoStart' = activeVideoStart
                /\ grown' = Append(grown, "end"))
            \/ (activeVideoEnd' = activeVideoEnd /\ activeVideoStart' = activeVideoStart - 1
                /\ grown' = Append(grown, "start"))]_vars

\* The loop ended after moving each edge at least twice.
C8_Witness ==
    /\ ppc = "done"
    /\ activeVideoEnd >= inEnd + 2
    /\ activeVideoStart <= inStart - 2

====
